---- MODULE Spec2Model ----
(***************************************************************************)
(* Lifecycle, store and detection model of OpportunityOS.                  *)
(*                                                                         *)
(* The program is a single Node.js process.  Every async call (a Slack     *)
(* button action, runDetection, markAsShipped, a direct store call) is a   *)
(* task; a task runs from one await to the next without interruption, and  *)
(* tasks interleave at their awaits.  One action of the model is one such  *)
(* run-to-next-await segment.                                              *)
(*                                                                         *)
(* Spec and DemoSpec take the calls on the coordinator whatever their      *)
(* origin; ServiceSpec is the start command, where the calls come from the *)
(* cron job and the Slack listeners and end with the process; StoreSpec,   *)
(* RetrySpec and DetectorSpec exercise one component on its own; EarlySpec *)
(* is the store called before initialize() has completed; CliSpec is the   *)
(* PID file shared by several start commands, each a process of its own.   *)
(***************************************************************************)
EXTENDS Integers, Sequences, FiniteSets, TLC

\* ------------------------------------------------------------------ bounds
MaxOpps == 2        \* number of uuids the detector hands out in one behaviour
MaxKeys == 2        \* number of distinct ids the clients of the store use
MaxTasks == 2       \* number of async calls in flight at the same time
MaxCalls == 3       \* number of calls issued in one behaviour, initialize() not counted
MaxFaults == 1      \* number of failing writes and collaborator calls in one behaviour
MaxProcs == 2       \* start commands issued, each in a process of its own

Ids == 1..MaxOpps
Keys == 1..MaxKeys
Tasks == 1..MaxTasks

\* the pids of the processes that run the start command; no pid is 0
Pids == 1..MaxProcs

NoPid == 0

\* ------------------------------------------------------------------- types
DETECTED == "detected"
PROMOTED == "promoted"
DISMISSED == "dismissed"
INVESTIGATING == "investigating"
SPEC_GENERATED == "spec_generated"
SHIPPED == "shipped"

OpportunityStatus ==
  {DETECTED, PROMOTED, DISMISSED, INVESTIGATING, SPEC_GENERATED, SHIPPED}

FUNNEL_DROP == "funnel_drop"
LOW_NPS == "low_nps"
FEATURE_UNDERUSE == "feature_underuse"

OpportunityType == {FUNNEL_DROP, LOW_NPS, FEATURE_UNDERUSE}

\* absent optional fields of an Opportunity (undefined in the source)
NoTs == 0
NoSpec == "none"
NoImpact == "none"

\* An Opportunity record.  title, description, evidence, createdAt and
\* updatedAt are carried unchanged by every operation below and are left out.
Opportunity(id, type, status, score) ==
  [id |-> id, type |-> type, status |-> status, score |-> score,
   slackMessageTs |-> NoTs, specUrl |-> NoSpec, actualImpact |-> NoImpact]

\* ----------------------------------------------------------- configuration
\* ConfigurationManager.validateAndNormalize: an unset autoGenerateSpecs
\* becomes false.
NormalizeAutoGenerate(setting) ==
  IF setting = "unset" THEN FALSE ELSE setting = "on"

VARIABLES
  config,          \* [demo, autoGenerateSpecs]: which orchestrator class runs, normalized setting
  opportunities,   \* OpportunityStore.opportunities: Map in insertion order, as a sequence
  initialized,     \* OpportunityStore.initialized
  file,            \* the backing file: [state, records]
  tasks,           \* the async calls in flight, by slot
  nextId,          \* next uuid the detector hands out
  posted,          \* ids posted to the Slack channel, in order; the ts of a post is its index
  kiroCalls,       \* ids for which the spec-generation collaborator was invoked
  calls,           \* number of calls issued so far
  faults,          \* number of collaborator and file-system failures so far
  isRunning,       \* OpportunityOS.isRunning
  cronJob,         \* OpportunityOS.cronJob: "none", "scheduled" or "stopped"
  process,         \* the Node.js process: "running", "exit0", "exit1" or "unhandled"
  retryCall,       \* one call of retry(fn, options): its options, loop variables and result
  detections,      \* the calls made to the detectors on their own: input and returned candidates
  pidFile,         \* .opportunityos.pid: the pid written in it, NoPid when the file is absent
  commands         \* the processes running the start command, by pid: where each one is

\* the state of the service around the coordinator
service == <<isRunning, cronJob, process>>

\* the state of the library functions exercised on their own
library == <<retryCall, detections>>

\* the state of the command line: the PID file and the start commands
cli == <<pidFile, commands>>

vars == <<config, opportunities, initialized, file, tasks, nextId, posted, kiroCalls,
          calls, faults, isRunning, cronJob, process, retryCall, detections,
          pidFile, commands>>

\* ------------------------------------------------------------ the Map type
Has(store, id) == \E i \in 1..Len(store) : store[i].id = id

IndexOf(store, id) == CHOOSE i \in 1..Len(store) : store[i].id = id

Get(store, id) == store[IndexOf(store, id)]

\* Map.set: an existing key keeps its position, a new key goes last
MapSet(store, id, opp) ==
  IF Has(store, id)
    THEN [store EXCEPT ![IndexOf(store, id)] = opp]
    ELSE Append(store, opp)

\* ------------------------------------------------------- OpportunityStore
\* validateOpportunity: TRUE when it does not throw
\* a score is an integer, or one of two values outside the integers: the
\* number NaN, and NotNumber for a score that is null or undefined
NaN == 1000
NotNumber == 2000

\* a < b on JavaScript values: false when either side is NaN
Less(a, b) == a # NaN /\ b # NaN /\ a < b

validateOpportunity(opp) ==
  /\ opp.id # 0
  /\ opp.type # "" /\ opp.status \in OpportunityStatus
  /\ ~(opp.score = NotNumber \/ Less(opp.score, 0) \/ Less(100, opp.score))

\* a create without the has-check
createNoCheck(store, opp) ==
  IF ~validateOpportunity(opp) THEN [err |-> "InvalidRecord", store |-> store]
  ELSE [err |-> "none", store |-> MapSet(store, opp.id, opp)]

\* the synchronous part of create, up to the await of save()
create(store, opp) ==
  IF ~validateOpportunity(opp) THEN [err |-> "InvalidRecord", store |-> store]
  ELSE IF Has(store, opp.id) THEN [err |-> "AlreadyExists", store |-> store]
  ELSE [err |-> "none", store |-> MapSet(store, opp.id, opp)]

\* a merge that drops the optional fields the updates do not name
MergeReplace(existing, updates, id) ==
  [f \in DOMAIN existing |->
     IF f = "id" THEN id
     ELSE IF f \in DOMAIN updates THEN updates[f]
     ELSE IF f \in {"type", "score"} THEN existing[f]
     ELSE Opportunity(id, existing.type, existing.status, existing.score)[f]]

\* { ...existing, ...updates, id }
Merge(existing, updates, id) ==
  [f \in DOMAIN existing |->
     IF f = "id" THEN id
     ELSE IF f \in DOMAIN updates THEN updates[f] ELSE existing[f]]

\* an update that sets the merged record before it validates it
updateSetFirst(store, id, updates) ==
  IF ~Has(store, id) THEN [err |-> "NotFound", store |-> store]
  ELSE LET updated == Merge(Get(store, id), updates, id) IN
    [err |-> IF validateOpportunity(updated) THEN "none" ELSE "InvalidRecord",
     store |-> MapSet(store, id, updated)]

\* the synchronous part of update, up to the await of save()
update(store, id, updates) ==
  IF ~Has(store, id) THEN [err |-> "NotFound", store |-> store]
  ELSE LET updated == Merge(Get(store, id), updates, id) IN
    IF ~validateOpportunity(updated) THEN [err |-> "InvalidRecord", store |-> store]
    ELSE [err |-> "none", store |-> MapSet(store, id, updated)]

\* no Opportunity: every field undefined
NoOpp == Opportunity(0, "", "", 0)

Optional == {"slackMessageTs", "specUrl", "actualImpact"}

\* a stringify that writes the identifying fields only
stringifyCore(opp) == [f \in {"id", "type", "status"} |-> opp[f]]

\* JSON.stringify of one record: properties that are undefined are left out,
\* and NaN is written as null
stringify(opp) ==
  [f \in {g \in DOMAIN opp : ~(g \in Optional /\ opp[g] = NoOpp[g])} |->
     IF f = "score" /\ opp[f] = NaN THEN NotNumber ELSE opp[f]]

\* JSON.parse of one record: a property the text lacks reads as undefined
parse(json) ==
  [f \in DOMAIN NoOpp |->
     IF f \in DOMAIN json THEN json[f]
     ELSE IF f = "score" THEN NotNumber ELSE NoOpp[f]]

\* save(): what fs.writeFile leaves in the file when it succeeds
Saved(data) ==
  [state |-> "json", records |-> [i \in 1..Len(data) |-> stringify(data[i])]]

\* load(): the effect of reading the backing file into the Map.  The Map is
\* cleared, then the records are validated and set one by one; the first
\* invalid record throws and leaves the ones before it loaded.
\* a loop that skips the records that fail validation
RECURSIVE LoadRecordsSkip(_, _)
LoadRecordsSkip(store, recs) ==
  IF recs = <<>> THEN [err |-> "none", store |-> store]
  ELSE LET opp == parse(Head(recs)) IN
    LoadRecordsSkip(IF validateOpportunity(opp) THEN MapSet(store, opp.id, opp) ELSE store,
                    Tail(recs))

RECURSIVE LoadRecords(_, _)
LoadRecords(store, recs) ==
  IF recs = <<>> THEN [err |-> "none", store |-> store]
  ELSE LET opp == parse(Head(recs)) IN
    IF ~validateOpportunity(opp)
      THEN [err |-> "InvalidRecord", store |-> store]
      ELSE LoadRecords(MapSet(store, opp.id, opp), Tail(recs))

\* a load that lets the SyntaxError of JSON.parse through
loadStrict(store, f) ==
  IF f.state \in {"missing", "empty"} THEN [err |-> "none", store |-> <<>>]
  ELSE IF f.state = "corrupt" THEN [err |-> "SyntaxError", store |-> store]
  ELSE IF f.state = "notarray" THEN [err |-> "TypeError", store |-> <<>>]
  ELSE LoadRecords(<<>>, f.records)

\* file states: "missing" (ENOENT), "empty", "corrupt" (JSON.parse throws),
\* "notarray" (JSON that is no array: the for-of throws a TypeError after the
\* clear), "json" (an array of records)
load(store, f) ==
  IF f.state \in {"missing", "empty", "corrupt"}
    THEN [err |-> "none", store |-> <<>>]
  ELSE IF f.state = "notarray" THEN [err |-> "TypeError", store |-> <<>>]
  ELSE LoadRecords(<<>>, f.records)

\* ------------------------------------------------------------ utils/retry
MaxAttempts == 4    \* largest maxAttempts option passed to retry

\* what one call of fn settles with: a value, or an error
Values == {"v1", "v2"}
Errors == {"e1", "e2", "e3"}

\* no call of retry: lastError is declared and not assigned
NoCall ==
  [pc |-> "idle", maxAttempts |-> 0, attempt |-> 0, outcomes |-> <<>>,
   lastError |-> "undefined", result |-> "none"]

\* a catch block that keeps the first error it saw
CaughtFirstError(r, error) ==
  LET first == IF r.lastError = "undefined" THEN error ELSE r.lastError IN
  IF r.attempt = r.maxAttempts
    THEN [r EXCEPT !.lastError = first, !.pc = "done", !.result = first]
    ELSE [r EXCEPT !.lastError = first, !.pc = "sleep"]

\* the catch block of the loop: the last attempt rethrows, the others sleep
Caught(r, error) ==
  IF r.attempt = r.maxAttempts
    THEN [r EXCEPT !.lastError = error, !.pc = "done", !.result = error]
    ELSE [r EXCEPT !.lastError = error, !.pc = "sleep"]

\* the head of the for loop: call fn, or leave the loop and throw lastError
Loop(r) ==
  IF r.attempt <= r.maxAttempts THEN [r EXCEPT !.pc = "call"]
  ELSE [r EXCEPT !.pc = "done", !.result = r.lastError]

\* retry(fn, {maxAttempts}) up to its first await
retry(maxAttempts) ==
  /\ retryCall.pc = "idle"
  /\ retryCall' = Loop([NoCall EXCEPT !.maxAttempts = maxAttempts, !.attempt = 1])
  /\ UNCHANGED <<cli, detections, service, config, opportunities, initialized, file, tasks,
                 nextId, posted, kiroCalls, calls, faults>>

\* the call of fn settles with a value (returned as it is) or an error
FnSettled(outcome) ==
  /\ retryCall.pc = "call"
  /\ LET r == [retryCall EXCEPT !.outcomes = Append(@, outcome)] IN
       retryCall' = IF outcome \in Values
                      THEN [r EXCEPT !.pc = "done", !.result = outcome]
                      ELSE Caught(r, outcome)
  /\ UNCHANGED <<cli, detections, service, config, opportunities, initialized, file, tasks,
                 nextId, posted, kiroCalls, calls, faults>>

\* sleep(delay) settles: attempt++ and the loop goes round
Slept ==
  /\ retryCall.pc = "sleep"
  /\ retryCall' = Loop([retryCall EXCEPT !.attempt = @ + 1])
  /\ UNCHANGED <<cli, detections, service, config, opportunities, initialized, file, tasks,
                 nextId, posted, kiroCalls, calls, faults>>

\* ------------------------------------------------------------------- tasks
IdleTask ==
  [kind |-> "none", pc |-> "idle", id |-> 0, action |-> "none", opp |-> NoOpp,
   data |-> <<>>, ts |-> NoTs, hadSpec |-> FALSE, attempt |-> 0,
   cands |-> <<>>, err |-> "none", result |-> "none", acked |-> FALSE]

\* a settled call is observed by its caller before anything else runs
NoneSettled == \A u \in Tasks : tasks[u].pc # "done"

\* an awaited call settles: it succeeds, or it fails
Succeeds == UNCHANGED faults
Fails == faults < MaxFaults /\ faults' = faults + 1

\* a call is given the lowest free slot (slots are interchangeable)
Free(t) ==
  /\ NoneSettled
  /\ tasks[t].pc = "idle"
  /\ \A u \in Tasks : u < t => tasks[u].pc # "idle"

NewTask(kind, id, action) ==
  [IdleTask EXCEPT !.kind = kind, !.id = id, !.action = action]

\* the call has settled: resolved ("ok") or rejected with an error
Settle(tk, result) == [tk EXCEPT !.pc = "done", !.result = result, !.data = <<>>, !.cands = <<>>]

InFlight(t) == tasks[t].pc \notin {"idle", "done"}

\* an initialize() call is pending
Starting == \E t \in Tasks : tasks[t].kind = "initialize" /\ tasks[t].pc # "idle"

\* ----------------------------------------------------- direct store calls
\* records a client of the exported OpportunityStore may pass to create
BadScore == 150

StoreOpps ==
  {Opportunity(i, FUNNEL_DROP, st, sc) :
     i \in Keys, st \in {DETECTED}, sc \in {85, 60, BadScore, NaN}}

\* the partial records a client may pass to update; the last one is what
\* runDetection passes, with an id other than the one updated added to it
StoreUpdates ==
  {[status |-> DISMISSED], [score |-> BadScore],
   [id |-> MaxKeys + 1, slackMessageTs |-> 1]}

\* store.create(opp), up to the await of save()
StoreCreate(t, opp) ==
  /\ Free(t) /\ calls < MaxCalls
  /\ calls' = calls + 1 /\ UNCHANGED faults
  /\ LET r == create(opportunities, opp) IN
       IF r.err # "none"
         THEN /\ tasks' = [tasks EXCEPT ![t] =
                   Settle([NewTask("create", opp.id, "none") EXCEPT !.opp = opp], r.err)]
              /\ opportunities' = r.store
         ELSE /\ opportunities' = r.store
              /\ tasks' = [tasks EXCEPT ![t] =
                   [NewTask("create", opp.id, "none") EXCEPT
                      !.opp = opp, !.pc = "save", !.data = r.store]]
  /\ UNCHANGED <<cli, library, service, config, initialized, file, nextId, posted, kiroCalls>>

\* an update whose merge is { ...existing, ...updates } without the id
StoreUpdateSpread(t, id, updates) ==
  /\ Free(t) /\ calls < MaxCalls
  /\ calls' = calls + 1 /\ UNCHANGED faults
  /\ LET updated == [f \in DOMAIN NoOpp |->
                       IF f \in DOMAIN updates THEN updates[f]
                       ELSE Get(opportunities, id)[f]]
         ok == Has(opportunities, id) /\ validateOpportunity(updated)
         data == MapSet(opportunities, id, updated) IN
       /\ opportunities' = IF ok THEN data ELSE opportunities
       /\ tasks' = [tasks EXCEPT ![t] =
            IF ~Has(opportunities, id) THEN Settle(NewTask("update", id, "none"), "NotFound")
            ELSE IF ~ok THEN Settle(NewTask("update", id, "none"), "InvalidRecord")
            ELSE [NewTask("update", id, "none") EXCEPT !.pc = "save", !.data = data]]
  /\ UNCHANGED <<cli, library, service, config, initialized, file, nextId, posted, kiroCalls>>

\* store.update(id, updates), up to the await of save()
StoreUpdate(t, id, updates) ==
  /\ Free(t) /\ calls < MaxCalls
  /\ calls' = calls + 1 /\ UNCHANGED faults
  /\ LET r == update(opportunities, id, updates) IN
       IF r.err # "none"
         THEN /\ tasks' = [tasks EXCEPT ![t] = Settle(NewTask("update", id, "none"), r.err)]
              /\ opportunities' = r.store
         ELSE /\ opportunities' = r.store
              /\ tasks' = [tasks EXCEPT ![t] =
                   [NewTask("update", id, "none") EXCEPT !.pc = "save", !.data = r.store]]
  /\ UNCHANGED <<cli, library, service, config, initialized, file, nextId, posted, kiroCalls>>

\* a create/update that sets its record in the Map when its write has settled
StoreSavedThenSet(t) ==
  /\ NoneSettled /\ UNCHANGED calls
  /\ tasks[t].kind \in {"create", "update"} /\ tasks[t].pc = "save"
  /\ \/ /\ Succeeds /\ file' = Saved(tasks[t].data)
        /\ opportunities' = tasks[t].data
        /\ tasks' = [tasks EXCEPT ![t] = Settle(@, "ok")]
     \/ /\ Fails /\ UNCHANGED <<file, opportunities>>
        /\ tasks' = [tasks EXCEPT ![t] = Settle(@, "WriteFailed")]
  /\ UNCHANGED <<cli, library, service, config, initialized, nextId, posted, kiroCalls>>

\* fs.writeFile of a direct create/update settles: written, or rejected
StoreSaved(t) ==
  /\ NoneSettled /\ UNCHANGED calls
  /\ tasks[t].kind \in {"create", "update"} /\ tasks[t].pc = "save"
  /\ \/ /\ Succeeds /\ file' = Saved(tasks[t].data)
        /\ tasks' = [tasks EXCEPT ![t] = Settle(@, "ok")]
     \/ /\ Fails /\ UNCHANGED file
        /\ tasks' = [tasks EXCEPT ![t] = Settle(@, "WriteFailed")]
  /\ UNCHANGED <<cli, library, service, config, opportunities, initialized, nextId, posted, kiroCalls>>

\* an initialize() that loads again whatever the flag says
InitializeAgain(t) ==
  /\ Free(t) /\ UNCHANGED <<calls, faults>>
  /\ tasks' = [tasks EXCEPT ![t] = [NewTask("initialize", 0, "none") EXCEPT !.pc = "load"]]
  /\ UNCHANGED <<cli, library, service, config, opportunities, initialized, file, nextId, posted, kiroCalls>>

\* store.initialize(), up to the first await; a no-op once initialized
Initialize(t) ==
  /\ Free(t) /\ UNCHANGED <<calls, faults>>
  /\ tasks' = [tasks EXCEPT ![t] =
       IF initialized THEN Settle(NewTask("initialize", 0, "none"), "ok")
       ELSE [NewTask("initialize", 0, "none") EXCEPT !.pc = "load"]]
  /\ UNCHANGED <<cli, library, service, config, opportunities, initialized, file, nextId, posted, kiroCalls>>

\* readFile settles and load() fills the Map
Loaded(t) ==
  /\ NoneSettled /\ UNCHANGED <<calls, faults>>
  /\ tasks[t].kind = "initialize" /\ tasks[t].pc = "load"
  /\ LET r == load(opportunities, file) IN
       /\ opportunities' = r.store
       /\ initialized' = (initialized \/ r.err = "none")
       /\ tasks' = [tasks EXCEPT ![t] = Settle(@, IF r.err = "none" THEN "ok" ELSE r.err)]
  /\ UNCHANGED <<cli, library, service, config, file, nextId, posted, kiroCalls>>

\* the caller takes the settled result; the slot is free again
Collect(t) ==
  /\ tasks[t].pc = "done" /\ UNCHANGED <<calls, faults>>
  /\ tasks' = [tasks EXCEPT ![t] = IdleTask]
  /\ UNCHANGED <<cli, library, service, config, opportunities, initialized, file, nextId, posted, kiroCalls>>

\* the process dies and a new OpportunityStore is constructed on the same
\* file.  A writeFile that was under way has left the old content, the new
\* content, or a truncated file (nothing, or the beginning of the JSON text).
TornFiles == {[state |-> "empty", records |-> <<>>], [state |-> "corrupt", records |-> <<>>]}

Crash ==
  /\ NoneSettled /\ initialized /\ Fails /\ UNCHANGED calls
  /\ \/ UNCHANGED file
     \/ \E t \in Tasks :
          /\ tasks[t].pc = "save"
          /\ file' \in {Saved(tasks[t].data)} \cup TornFiles
  /\ opportunities' = <<>>
  /\ initialized' = FALSE
  /\ tasks' = [t \in Tasks |-> IdleTask]
  /\ UNCHANGED <<cli, library, service, config, nextId, posted, kiroCalls>>

\* ----------------------------------------------------- store specification
MissingFile == [state |-> "missing", records |-> <<>>]

\* what the backing file may hold when the store is constructed
StoreFiles ==
  {MissingFile, [state |-> "notarray", records |-> <<>>]} \cup TornFiles \cup
  {Saved(<<Opportunity(1, FUNNEL_DROP, DETECTED, 85)>>),
   Saved(<<Opportunity(1, FUNNEL_DROP, DETECTED, 85),
           Opportunity(2, LOW_NPS, DETECTED, BadScore)>>)}

StoreInit ==
  /\ config = [demo |-> FALSE, autoGenerateSpecs |-> NormalizeAutoGenerate("unset")]
  /\ opportunities = <<>>
  /\ initialized = FALSE
  /\ file \in StoreFiles
  /\ tasks = [t \in Tasks |-> IdleTask]
  /\ nextId = 1
  /\ posted = <<>>
  /\ kiroCalls = {}
  /\ calls = 0
  /\ faults = 0
  /\ isRunning = FALSE
  /\ cronJob = "none"
  /\ process = "running"
  /\ retryCall = NoCall
  /\ pidFile = NoPid
  /\ commands = [p \in Pids |-> "none"]
  /\ detections = <<>>

\* initialize() is awaited before the store is used, as its callers and its
\* tests do
StoreNext ==
  \/ \E t \in Tasks, opp \in StoreOpps : initialized /\ StoreCreate(t, opp)
  \/ \E t \in Tasks, id \in Keys, u \in StoreUpdates : initialized /\ StoreUpdate(t, id, u)
  \/ \E t \in Tasks : StoreSaved(t)
  \/ \E t \in Tasks : ~Starting /\ Initialize(t)
  \/ Crash
  \/ \E t \in Tasks : Loaded(t)
  \/ \E t \in Tasks : Collect(t)

StoreSpec == StoreInit /\ [][StoreNext]_vars

\* the store as its methods let it be used: create and update do not look at
\* `initialized`, so a call may come before initialize() or while it loads
EarlyNext ==
  \/ \E t \in Tasks, opp \in StoreOpps : StoreCreate(t, opp)
  \/ \E t \in Tasks, id \in Keys, u \in StoreUpdates : StoreUpdate(t, id, u)
  \/ \E t \in Tasks : StoreSaved(t)
  \/ \E t \in Tasks : ~Starting /\ Initialize(t)
  \/ \E t \in Tasks : Loaded(t)
  \/ \E t \in Tasks : Collect(t)

EarlySpec == StoreInit /\ [][EarlyNext]_vars

\* ---------------------------------------------------- OpportunityDetector
\* Rates are percentages (dropoffRate 45 is 0.45); Math.round(n/d) for d > 0
Round(n, d) == (2 * n + d) \div (2 * d)

Min(a, b) == IF a < b THEN a ELSE b
Max(a, b) == IF a > b THEN a ELSE b

minOpportunityScore == 60

\* round(min(dropoffRate*100, 70) + min(userCount/1000*30, 30))
calculateFunnelScore(dropoffRate, userCount) ==
  Round(Min(100 * dropoffRate, 7000) + Min(3 * userCount, 3000), 100)

\* round(max(0, (30 - npsScore)*2) + min(responseCount/100*30, 30))
calculateNPSScore(npsScore, responseCount) ==
  Round(10 * Max(0, (30 - npsScore) * 2) + Min(3 * responseCount, 300), 10)

\* round((1 - usageRate)*70 + min(totalUsers/1000*30, 30))
calculateFeatureUsageScore(usageRate, totalUsers) ==
  Round((100 - usageRate) * 70 + Min(3 * totalUsers, 3000), 100)

\* Each detector returns the scores of its candidates in input order; the
\* uuids are given out afterwards, in the same order.
\* a step loop that takes a dropoff of exactly 30% as significant
RECURSIVE detectStepsAtLeast(_, _)
detectStepsAtLeast(steps, threshold) ==
  IF steps = <<>> THEN <<>>
  ELSE LET step == Head(steps)
           score == calculateFunnelScore(step.dropoffRate, step.userCount)
       IN (IF step.dropoffRate >= 30 /\ score >= threshold
             THEN <<[type |-> FUNNEL_DROP, score |-> score]>> ELSE <<>>)
          \o detectStepsAtLeast(Tail(steps), threshold)

RECURSIVE detectSteps(_, _)
detectSteps(steps, threshold) ==
  IF steps = <<>> THEN <<>>
  ELSE LET step == Head(steps)
           score == calculateFunnelScore(step.dropoffRate, step.userCount)
       IN (IF step.dropoffRate > 30 /\ score >= threshold
             THEN <<[type |-> FUNNEL_DROP, score |-> score]>> ELSE <<>>)
          \o detectSteps(Tail(steps), threshold)

RECURSIVE detectFunnelOpportunities(_, _)
detectFunnelOpportunities(funnels, threshold) ==
  IF funnels = <<>> THEN <<>>
  ELSE detectSteps(Head(funnels), threshold)
       \o detectFunnelOpportunities(Tail(funnels), threshold)

detectNPSOpportunities(npsData, threshold) ==
  LET score == calculateNPSScore(npsData.score, npsData.responseCount) IN
  IF npsData.score < 30 /\ npsData.responseCount >= 20 /\ score >= threshold
    THEN <<[type |-> LOW_NPS, score |-> score]>> ELSE <<>>

RECURSIVE detectFeatureUsageOpportunities(_, _)
detectFeatureUsageOpportunities(features, threshold) ==
  IF features = <<>> THEN <<>>
  ELSE LET feature == Head(features)
           score == calculateFeatureUsageScore(feature.usageRate, feature.totalUsers)
       IN (IF feature.usageRate < 20 /\ feature.totalUsers >= 100 /\ score >= threshold
             THEN <<[type |-> FEATURE_UNDERUSE, score |-> score]>> ELSE <<>>)
          \o detectFeatureUsageOpportunities(Tail(features), threshold)

\* a detection that puts the feature candidates first
DetectFeaturesFirst(snap, firstId) ==
  LET found == detectFeatureUsageOpportunities(snap.features, minOpportunityScore)
                 \o detectFunnelOpportunities(snap.funnels, minOpportunityScore)
                 \o detectNPSOpportunities(snap.nps, minOpportunityScore)
  IN [i \in 1..Len(found) |->
        Opportunity(firstId + i - 1, found[i].type, DETECTED, found[i].score)]

\* runDetection, lines 112-116: funnel, then NPS, then feature candidates,
\* each a new Opportunity at detected with the next uuid
Detect(snap, firstId) ==
  LET found == detectFunnelOpportunities(snap.funnels, minOpportunityScore)
                 \o detectNPSOpportunities(snap.nps, minOpportunityScore)
                 \o detectFeatureUsageOpportunities(snap.features, minOpportunityScore)
  IN [i \in 1..Len(found) |->
        Opportunity(firstId + i - 1, found[i].type, DETECTED, found[i].score)]

\* analytics snapshots the Userpilot client returns in this model
HealthyNPS == [score |-> 40, responseCount |-> 100]

Snapshots ==
  { [funnels |-> << <<[dropoffRate |-> 45, userCount |-> 900]>> >>,
     nps |-> HealthyNPS, features |-> <<>>],
    [funnels |-> <<>>, nps |-> [score |-> 15, responseCount |-> 100],
     features |-> <<[usageRate |-> 5, totalUsers |-> 1000]>>],
    [funnels |-> <<>>, nps |-> [score |-> -20, responseCount |-> 100],
     features |-> <<>>],
    [funnels |-> << <<[dropoffRate |-> 80, userCount |-> 1000],
                      [dropoffRate |-> 45, userCount |-> 900]>> >>,
     nps |-> HealthyNPS, features |-> <<>>],
    \* one step in three qualifies: the first is at the 0.30 limit, the third
    \* scores 38; the NPS view scores 16 and the feature is at the 0.20 limit
    [funnels |-> << <<[dropoffRate |-> 30, userCount |-> 1000],
                      [dropoffRate |-> 45, userCount |-> 900],
                      [dropoffRate |-> 35, userCount |-> 100]>> >>,
     nps |-> [score |-> 25, responseCount |-> 20],
     features |-> <<[usageRate |-> 20, totalUsers |-> 1000]>>],
    [funnels |-> <<>>, nps |-> HealthyNPS, features |-> <<>>] }

\* ------------------------------------------- OpportunityOS: the coordinator
SpecUrl == "url"
Impact == "impact"
KiroMaxAttempts == 2

\* store.update(...) called from a coordinator method: the synchronous part
\* up to save(), leaving the task at pc to await the write
Updating(tk, store, updates, pc) ==
  LET r == update(store, tk.id, updates) IN
  IF r.err # "none" THEN [task |-> Settle(tk, r.err), store |-> store]
  ELSE [task |-> [tk EXCEPT !.pc = pc, !.data = r.store,
                            !.ts = Get(r.store, tk.id).slackMessageTs],
        store |-> r.store]

\* a catch block that rethrows without the update
RevertSkipped(tk, store, err) == [task |-> Settle(tk, err), store |-> store]

\* the catch block of promoteOpportunity: status back to promoted, then rethrow
Revert(tk, store, err) ==
  Updating([tk EXCEPT !.err = err], store, [status |-> PROMOTED], "r_save")

\* the try block of promoteOpportunity after generateSpec returned: in
\* OpportunityOS a throw lands in the catch block, in DemoOpportunityOS
\* (no try) it leaves the method
Thrown(tk, store, err) ==
  IF ~config.demo /\ tk.kind = "action" THEN Revert(tk, store, err)
  ELSE [task |-> Settle(tk, err), store |-> store]

\* promoteOpportunity after the first Slack update.  OpportunityOS goes on
\* to generateSpec unconditionally; DemoOpportunityOS returns when
\* autoGenerateSpecs is off.
CallsKiro == ~config.demo \/ config.autoGenerateSpecs

AfterPromote(tk) ==
  IF CallsKiro THEN [tk EXCEPT !.pc = "kiro", !.attempt = 1]
  ELSE Settle(tk, "ok")

UnchangedRest == UNCHANGED <<cli, library, service, config, initialized, nextId, posted>>

\* handleOpportunityAction for the call held in tk, up to its first await:
\* store.get, then the first store.update of the chosen method
HandleAction(tk, store) ==
  IF ~Has(store, tk.id) THEN [task |-> Settle(tk, "ok"), store |-> store]
  ELSE LET status == CASE tk.action = "promote" -> PROMOTED
                       [] tk.action = "dismiss" -> DISMISSED
                       [] OTHER -> INVESTIGATING
       IN Updating(tk, store, [status |-> status],
                   IF tk.action = "promote" THEN "p_save" ELSE "a_save")

\* a Slack button action (or simulateUserAction) reaches
\* handleOpportunityAction
handleOpportunityAction(t, id, action) ==
  /\ Free(t) /\ calls < MaxCalls
  /\ calls' = calls + 1 /\ UNCHANGED faults
  /\ LET u == HandleAction(NewTask("action", id, action), opportunities) IN
       /\ tasks' = [tasks EXCEPT ![t] = u.task]
       /\ opportunities' = u.store
  /\ UNCHANGED <<file, kiroCalls>>
  /\ UnchangedRest

\* dismissOpportunity / investigateOpportunity: the write settles
ActionSaved(t) ==
  /\ NoneSettled /\ tasks[t].pc = "a_save"
  /\ \/ /\ Succeeds /\ file' = Saved(tasks[t].data)
        /\ tasks' = [tasks EXCEPT ![t] =
             IF @.ts # NoTs THEN [@ EXCEPT !.pc = "a_notify", !.data = <<>>]
             ELSE Settle(@, "ok")]
     \/ /\ Fails /\ UNCHANGED file
        /\ tasks' = [tasks EXCEPT ![t] = Settle(@, "WriteFailed")]
  /\ UNCHANGED <<opportunities, kiroCalls, calls>>
  /\ UnchangedRest

\* dismissOpportunity / investigateOpportunity: slack.updateOpportunity settles
ActionNotified(t) ==
  /\ NoneSettled /\ tasks[t].pc = "a_notify"
  /\ \/ /\ Succeeds
        /\ tasks' = [tasks EXCEPT ![t] = Settle(@, "ok")]
     \/ /\ ~config.demo /\ Fails
        /\ tasks' = [tasks EXCEPT ![t] = Settle(@, "SlackFailed")]
  /\ UNCHANGED <<opportunities, file, kiroCalls, calls>>
  /\ UnchangedRest

\* promoteOpportunity: the write of status promoted settles
PromoteSaved(t) ==
  /\ NoneSettled /\ tasks[t].pc = "p_save"
  /\ \/ /\ Succeeds /\ file' = Saved(tasks[t].data)
        /\ LET tk == [tasks[t] EXCEPT !.data = <<>>]
               nxt == IF tk.ts # NoTs THEN [tk EXCEPT !.pc = "p_notify"]
                      ELSE AfterPromote(tk)
           IN /\ tasks' = [tasks EXCEPT ![t] = nxt]
              /\ kiroCalls' = IF nxt.pc = "kiro" THEN kiroCalls \cup {tk.id} ELSE kiroCalls
     \/ /\ Fails /\ UNCHANGED <<file, kiroCalls>>
        /\ tasks' = [tasks EXCEPT ![t] = Settle(@, "WriteFailed")]
  /\ UNCHANGED <<opportunities, calls>>
  /\ UnchangedRest

\* promoteOpportunity: the Slack update of the promoted record settles
PromoteNotified(t) ==
  /\ NoneSettled /\ tasks[t].pc = "p_notify"
  /\ \/ LET nxt == AfterPromote(tasks[t]) IN
          /\ Succeeds
          /\ tasks' = [tasks EXCEPT ![t] = nxt]
          /\ kiroCalls' = IF nxt.pc = "kiro" THEN kiroCalls \cup {tasks[t].id} ELSE kiroCalls
     \/ /\ ~config.demo /\ Fails
        /\ tasks' = [tasks EXCEPT ![t] = Settle(@, "SlackFailed")]
        /\ UNCHANGED kiroCalls
  /\ UNCHANGED <<opportunities, file, calls>>
  /\ UnchangedRest

\* kiro.generateSpec settles one attempt.  KiroAgent retries once
\* (maxAttempts 2) and then throws; MockKiroAgent always succeeds.
KiroResponded(t) ==
  /\ NoneSettled /\ tasks[t].pc = "kiro"
  /\ \/ LET r == update(opportunities, tasks[t].id,
                        [status |-> SPEC_GENERATED, specUrl |-> SpecUrl])
            u == IF r.err = "none"
                   THEN Updating(tasks[t], opportunities,
                          [status |-> SPEC_GENERATED, specUrl |-> SpecUrl], "s_save")
                   ELSE Thrown(tasks[t], opportunities, r.err)
        IN /\ Succeeds
           /\ tasks' = [tasks EXCEPT ![t] = u.task]
           /\ opportunities' = u.store
     \/ /\ ~config.demo /\ tasks[t].attempt < KiroMaxAttempts /\ Fails
        /\ tasks' = [tasks EXCEPT ![t].attempt = @ + 1]
        /\ UNCHANGED opportunities
     \/ /\ ~config.demo /\ tasks[t].attempt = KiroMaxAttempts /\ UNCHANGED faults
        /\ LET u == Thrown(tasks[t], opportunities, "KiroFailed") IN
             /\ tasks' = [tasks EXCEPT ![t] = u.task]
             /\ opportunities' = u.store
  /\ UNCHANGED <<file, kiroCalls, calls>>
  /\ UnchangedRest

\* the write of status spec_generated and specUrl settles
SpecSaved(t) ==
  /\ NoneSettled /\ tasks[t].pc = "s_save"
  /\ \/ /\ Succeeds /\ file' = Saved(tasks[t].data)
        /\ tasks' = [tasks EXCEPT ![t] =
             IF @.ts # NoTs THEN [@ EXCEPT !.pc = "s_notify", !.data = <<>>]
             ELSE Settle(@, "ok")]
        /\ UNCHANGED opportunities
     \/ /\ Fails /\ UNCHANGED file
        /\ LET u == Thrown(tasks[t], opportunities, "WriteFailed") IN
             /\ tasks' = [tasks EXCEPT ![t] = u.task]
             /\ opportunities' = u.store
  /\ UNCHANGED <<kiroCalls, calls>>
  /\ UnchangedRest

\* the Slack update carrying the spec link settles
SpecNotified(t) ==
  /\ NoneSettled /\ tasks[t].pc = "s_notify"
  /\ \/ /\ Succeeds
        /\ tasks' = [tasks EXCEPT ![t] = Settle(@, "ok")]
        /\ UNCHANGED opportunities
     \/ /\ ~config.demo /\ Fails
        /\ LET u == Thrown(tasks[t], opportunities, "SlackFailed") IN
             /\ tasks' = [tasks EXCEPT ![t] = u.task]
             /\ opportunities' = u.store
  /\ UNCHANGED <<file, kiroCalls, calls>>
  /\ UnchangedRest

\* the write of the revert settles; the caught error is rethrown
RevertSaved(t) ==
  /\ NoneSettled /\ tasks[t].pc = "r_save"
  /\ \/ /\ Succeeds /\ file' = Saved(tasks[t].data)
        /\ tasks' = [tasks EXCEPT ![t] = Settle(@, @.err)]
     \/ /\ Fails /\ UNCHANGED file
        /\ tasks' = [tasks EXCEPT ![t] = Settle(@, "WriteFailed")]
  /\ UNCHANGED <<opportunities, kiroCalls, calls>>
  /\ UnchangedRest

\* markAsShipped(id, actualImpact): store.get, then store.update up to save().
\* opportunity.specUrl is read from the record fetched before the update.
markAsShipped(t, id) ==
  /\ Free(t) /\ calls < MaxCalls
  /\ calls' = calls + 1 /\ UNCHANGED faults
  /\ LET tk == NewTask("ship", id, "none") IN
       IF ~Has(opportunities, id)
         THEN /\ tasks' = [tasks EXCEPT ![t] = Settle(tk, "NotFound")]
              /\ UNCHANGED opportunities
         ELSE LET had == Get(opportunities, id).specUrl # NoSpec
                  u == Updating([tk EXCEPT !.hadSpec = had], opportunities,
                         [status |-> SHIPPED, actualImpact |-> Impact], "m_save")
              IN /\ tasks' = [tasks EXCEPT ![t] = u.task]
                 /\ opportunities' = u.store
  /\ UNCHANGED <<file, kiroCalls>>
  /\ UnchangedRest

\* markAsShipped after the Slack update: feedback only if a spec existed
AfterShipped(tk) ==
  IF tk.hadSpec THEN [tk EXCEPT !.pc = "m_feedback"] ELSE Settle(tk, "ok")

\* markAsShipped: the write settles
ShippedSaved(t) ==
  /\ NoneSettled /\ tasks[t].pc = "m_save"
  /\ \/ /\ Succeeds /\ file' = Saved(tasks[t].data)
        /\ tasks' = [tasks EXCEPT ![t] =
             IF @.ts # NoTs THEN [@ EXCEPT !.pc = "m_notify", !.data = <<>>]
             ELSE AfterShipped([@ EXCEPT !.data = <<>>])]
     \/ /\ Fails /\ UNCHANGED file
        /\ tasks' = [tasks EXCEPT ![t] = Settle(@, "WriteFailed")]
  /\ UNCHANGED <<opportunities, kiroCalls, calls>>
  /\ UnchangedRest

\* markAsShipped: slack.updateOpportunity settles
ShippedNotified(t) ==
  /\ NoneSettled /\ tasks[t].pc = "m_notify"
  /\ \/ /\ Succeeds
        /\ tasks' = [tasks EXCEPT ![t] = AfterShipped(@)]
     \/ /\ ~config.demo /\ Fails
        /\ tasks' = [tasks EXCEPT ![t] = Settle(@, "SlackFailed")]
  /\ UNCHANGED <<opportunities, file, kiroCalls, calls>>
  /\ UnchangedRest

\* markAsShipped: kiro.provideFeedback settles; a failure leaves the method
FeedbackDone(t) ==
  /\ NoneSettled /\ tasks[t].pc = "m_feedback"
  /\ \/ /\ Succeeds
        /\ tasks' = [tasks EXCEPT ![t] = Settle(@, "ok")]
     \/ /\ ~config.demo /\ Fails
        /\ tasks' = [tasks EXCEPT ![t] = Settle(@, "KiroFailed")]
  /\ UNCHANGED <<opportunities, file, kiroCalls, calls>>
  /\ UnchangedRest

\* DemoOpportunityOS.generateSpec(id): the manual trigger, promoted only
generateSpec(t, id) ==
  /\ config.demo
  /\ Free(t) /\ calls < MaxCalls
  /\ calls' = calls + 1 /\ UNCHANGED faults
  /\ LET tk == NewTask("genspec", id, "none")
         nxt == IF ~Has(opportunities, id) THEN Settle(tk, "NotFound")
                ELSE IF Get(opportunities, id).status # PROMOTED
                  THEN Settle(tk, "IllegalTransition")
                ELSE [tk EXCEPT !.pc = "kiro", !.attempt = 1]
     IN /\ tasks' = [tasks EXCEPT ![t] = nxt]
        /\ kiroCalls' = IF nxt.pc = "kiro" THEN kiroCalls \cup {id} ELSE kiroCalls
  /\ UNCHANGED <<opportunities, file>>
  /\ UnchangedRest

\* ------------------------------------------------------------ runDetection
\* the head of the for loop: store.create of the next candidate up to save()
CreateNext(tk, store) ==
  IF tk.cands = <<>> THEN [task |-> Settle(tk, "ok"), store |-> store]
  ELSE LET opp == Head(tk.cands)
           r == create(store, opp) IN
    IF r.err # "none" THEN [task |-> Settle([tk EXCEPT !.opp = opp], r.err), store |-> r.store]
    ELSE [task |-> [tk EXCEPT !.pc = "d_create", !.id = opp.id, !.opp = opp,
                              !.data = r.store],
          store |-> r.store]

\* runDetection(): the three fetches are issued
runDetection(t) ==
  /\ Free(t) /\ calls < MaxCalls
  /\ calls' = calls + 1 /\ UNCHANGED faults
  /\ tasks' = [tasks EXCEPT ![t] = [NewTask("detect", 0, "none") EXCEPT !.pc = "fetch"]]
  /\ UNCHANGED <<opportunities, file, kiroCalls>>
  /\ UnchangedRest

\* a detection that acts on the views that did arrive when one fetch failed
FetchedPartial(t) ==
  /\ NoneSettled /\ tasks[t].pc = "fetch"
  /\ \E snap \in Snapshots :
       LET cands == Detect(snap, nextId)
           u == CreateNext([tasks[t] EXCEPT !.cands = cands], opportunities)
       IN /\ Succeeds \/ (~config.demo /\ Fails)
          /\ nextId + Len(cands) <= MaxOpps + 1
          /\ nextId' = nextId + Len(cands)
          /\ tasks' = [tasks EXCEPT ![t] = u.task]
          /\ opportunities' = u.store
  /\ UNCHANGED <<cli, library, service, config, initialized, file, posted, kiroCalls, calls>>

\* Promise.all settles: one fetch failed, or the three views arrived and the
\* detectors ran; the loop starts with the first candidate
Fetched(t) ==
  /\ NoneSettled /\ tasks[t].pc = "fetch"
  /\ \/ /\ ~config.demo /\ Fails
        /\ tasks' = [tasks EXCEPT ![t] = Settle(@, "FetchFailed")]
        /\ UNCHANGED <<opportunities, nextId>>
     \/ \E snap \in Snapshots :
          LET cands == Detect(snap, nextId)
              u == CreateNext([tasks[t] EXCEPT !.cands = cands], opportunities)
          IN /\ Succeeds
             /\ nextId + Len(cands) <= MaxOpps + 1
             /\ nextId' = nextId + Len(cands)
             /\ tasks' = [tasks EXCEPT ![t] = u.task]
             /\ opportunities' = u.store
  /\ UNCHANGED <<cli, library, service, config, initialized, file, posted, kiroCalls, calls>>

\* the write of store.create settles; slack.postOpportunity is issued
DetectCreated(t) ==
  /\ NoneSettled /\ tasks[t].pc = "d_create"
  /\ \/ /\ Succeeds /\ file' = Saved(tasks[t].data)
        /\ tasks' = [tasks EXCEPT ![t] = [@ EXCEPT !.pc = "d_post", !.data = <<>>]]
     \/ /\ Fails /\ UNCHANGED file
        /\ tasks' = [tasks EXCEPT ![t] = Settle(@, "WriteFailed")]
  /\ UNCHANGED <<opportunities, kiroCalls, calls>>
  /\ UnchangedRest

\* a loop that logs a failed post and goes on to the next candidate
DetectPostedGoesOn(t) ==
  /\ NoneSettled /\ tasks[t].pc = "d_post"
  /\ \/ /\ Succeeds
        /\ posted' = Append(posted, tasks[t].id)
        /\ LET u == Updating(tasks[t], opportunities,
                             [slackMessageTs |-> Len(posted) + 1], "d_update")
           IN /\ tasks' = [tasks EXCEPT ![t] = u.task]
              /\ opportunities' = u.store
     \/ /\ ~config.demo /\ Fails
        /\ LET u == CreateNext([tasks[t] EXCEPT !.cands = Tail(@)], opportunities)
           IN /\ tasks' = [tasks EXCEPT ![t] = u.task]
              /\ opportunities' = u.store
        /\ UNCHANGED posted
  /\ UNCHANGED <<cli, library, service, config, initialized, file, nextId, kiroCalls, calls>>

\* postOpportunity settles; its ts goes onto the record with store.update
DetectPosted(t) ==
  /\ NoneSettled /\ tasks[t].pc = "d_post"
  /\ \/ /\ Succeeds
        /\ posted' = Append(posted, tasks[t].id)
        /\ LET u == Updating(tasks[t], opportunities,
                             [slackMessageTs |-> Len(posted) + 1], "d_update")
           IN /\ tasks' = [tasks EXCEPT ![t] = u.task]
              /\ opportunities' = u.store
     \/ /\ ~config.demo /\ Fails
        /\ tasks' = [tasks EXCEPT ![t] = Settle(@, "SlackFailed")]
        /\ UNCHANGED <<opportunities, posted>>
  /\ UNCHANGED <<cli, library, service, config, initialized, file, nextId, kiroCalls, calls>>

\* the write of the ts settles; the loop goes on to the next candidate
DetectUpdated(t) ==
  /\ NoneSettled /\ tasks[t].pc = "d_update"
  /\ \/ /\ Succeeds /\ file' = Saved(tasks[t].data)
        /\ LET u == CreateNext([tasks[t] EXCEPT !.cands = Tail(@), !.data = <<>>],
                               opportunities)
           IN /\ tasks' = [tasks EXCEPT ![t] = u.task]
              /\ opportunities' = u.store
     \/ /\ Fails /\ UNCHANGED <<file, opportunities>>
        /\ tasks' = [tasks EXCEPT ![t] = Settle(@, "WriteFailed")]
  /\ UNCHANGED <<kiroCalls, calls>>
  /\ UnchangedRest

\* ------------------------------------------------ coordinator specification
Actions == {"promote", "dismiss", "investigate"}

Settings == {"unset", "on", "off"}

\* the state after construction, before start()
Constructed(demo) ==
  /\ \E setting \in Settings :
       config = [demo |-> demo, autoGenerateSpecs |-> NormalizeAutoGenerate(setting)]
  /\ opportunities = <<>>
  /\ initialized = FALSE
  /\ file = MissingFile
  /\ tasks = [t \in Tasks |-> IdleTask]
  /\ nextId = 1
  /\ posted = <<>>
  /\ kiroCalls = {}
  /\ calls = 0
  /\ faults = 0
  /\ isRunning = FALSE
  /\ cronJob = "none"
  /\ process = "running"
  /\ retryCall = NoCall
  /\ pidFile = NoPid
  /\ commands = [p \in Pids |-> "none"]
  /\ detections = <<>>

Init == Constructed(FALSE)

\* start() is called once and awaited before anything else, as the start and
\* demo commands do: the other calls arrive once the store is initialized
start(t) == ~initialized /\ ~Starting /\ Initialize(t)

Next ==
  \/ \E t \in Tasks : start(t)
  \/ \E t \in Tasks : Loaded(t)
  \/ \E t \in Tasks : initialized /\ runDetection(t)
  \/ \E t \in Tasks : Fetched(t)
  \/ \E t \in Tasks : DetectCreated(t)
  \/ \E t \in Tasks : DetectPosted(t)
  \/ \E t \in Tasks : DetectUpdated(t)
  \/ \E t \in Tasks, id \in Ids, action \in Actions :
       initialized /\ handleOpportunityAction(t, id, action)
  \/ \E t \in Tasks : ActionSaved(t)
  \/ \E t \in Tasks : ActionNotified(t)
  \/ \E t \in Tasks : PromoteSaved(t)
  \/ \E t \in Tasks : PromoteNotified(t)
  \/ \E t \in Tasks : KiroResponded(t)
  \/ \E t \in Tasks : SpecSaved(t)
  \/ \E t \in Tasks : SpecNotified(t)
  \/ \E t \in Tasks : RevertSaved(t)
  \/ \E t \in Tasks, id \in Ids : initialized /\ markAsShipped(t, id)
  \/ \E t \in Tasks : ShippedSaved(t)
  \/ \E t \in Tasks : ShippedNotified(t)
  \/ \E t \in Tasks : FeedbackDone(t)
  \/ \E t \in Tasks : Collect(t)

Spec == Init /\ [][Next]_vars

\* ------------------------------------------- DemoOpportunityOS specification
DemoInit == Constructed(TRUE)

DemoNext ==
  \/ \E t \in Tasks : start(t)
  \/ \E t \in Tasks : Loaded(t)
  \/ \E t \in Tasks : initialized /\ runDetection(t)
  \/ \E t \in Tasks : Fetched(t)
  \/ \E t \in Tasks : DetectCreated(t)
  \/ \E t \in Tasks : DetectPosted(t)
  \/ \E t \in Tasks : DetectUpdated(t)
  \/ \E t \in Tasks, id \in Ids, action \in Actions :
       initialized /\ handleOpportunityAction(t, id, action)
  \/ \E t \in Tasks : ActionSaved(t)
  \/ \E t \in Tasks : ActionNotified(t)
  \/ \E t \in Tasks : PromoteSaved(t)
  \/ \E t \in Tasks : PromoteNotified(t)
  \/ \E t \in Tasks : KiroResponded(t)
  \/ \E t \in Tasks : SpecSaved(t)
  \/ \E t \in Tasks : SpecNotified(t)
  \/ \E t \in Tasks, id \in Ids : initialized /\ markAsShipped(t, id)
  \/ \E t \in Tasks : ShippedSaved(t)
  \/ \E t \in Tasks : ShippedNotified(t)
  \/ \E t \in Tasks : FeedbackDone(t)
  \/ \E t \in Tasks, id \in Ids : initialized /\ generateSpec(t, id)
  \/ \E t \in Tasks : Collect(t)

DemoSpec == DemoInit /\ [][DemoNext]_vars

\* --------------------------------------------- the service: `opportunityos start`
\* The start command constructs an OpportunityOS, awaits start() and waits
\* for a signal.  The calls that reach the coordinator are the scheduled
\* callback and the Slack button listeners.
Alive == process = "running"

Abandoned == [t \in Tasks |-> IdleTask]

ServiceRest ==
  UNCHANGED <<cli, library, config, opportunities, initialized, file, nextId, posted, kiroCalls,
              calls>>

\* start() after store.initialize() returned: slack.start() settles, the
\* detection job is scheduled and isRunning is set; a failure leaves start()
\* and the command exits with code 1
Scheduled(t) ==
  /\ tasks[t].kind = "initialize" /\ tasks[t].pc = "done" /\ tasks[t].result = "ok"
  /\ ~isRunning /\ cronJob = "none"
  /\ \/ /\ Succeeds
        /\ cronJob' = "scheduled" /\ isRunning' = TRUE
        /\ tasks' = [tasks EXCEPT ![t] = IdleTask]
        /\ UNCHANGED process
     \/ /\ Fails
        /\ process' = "exit1" /\ tasks' = Abandoned
        /\ UNCHANGED <<isRunning, cronJob>>
  /\ ServiceRest

\* the schedule fires: the callback calls runDetection().  The job looks at
\* nothing but the clock, so it fires whether or not an earlier run is over.
CronFired(t) == cronJob = "scheduled" /\ runDetection(t)

\* the promise of the scheduled callback settles.  The callback has no catch
\* and nothing in this repository awaits it: a rejection is left to
\* node-cron, which swallows it or leaves it unhandled, and an unhandled
\* rejection ends the process.
CallbackSettled(t) ==
  /\ tasks[t].kind = "detect" /\ tasks[t].pc = "done"
  /\ \/ /\ tasks' = [tasks EXCEPT ![t] = IdleTask]
        /\ UNCHANGED process
     \/ /\ tasks[t].result # "ok"
        /\ process' = "unhandled" /\ tasks' = Abandoned
  /\ UNCHANGED <<isRunning, cronJob, faults>>
  /\ ServiceRest

\* a listener that calls the handler without acknowledging first
ButtonPressedNoAck(t, id, action) ==
  /\ isRunning
  /\ handleOpportunityAction(t, id, action)

\* a button of a posted message is pressed: the listener of
\* setupActionHandlers runs and calls ack()
ButtonPressed(t, id, action) ==
  /\ isRunning
  /\ Free(t) /\ calls < MaxCalls
  /\ calls' = calls + 1
  /\ tasks' = [tasks EXCEPT ![t] = [NewTask("action", id, action) EXCEPT !.pc = "ack"]]
  /\ UNCHANGED <<cli, library, service, faults, config, opportunities, initialized, file, nextId,
                 posted, kiroCalls>>

\* ack() settles; the listener goes on to handleAction, which calls the
\* registered handler.  When ack() throws the listener ends there.
Acked(t) ==
  /\ NoneSettled /\ tasks[t].pc = "ack"
  /\ \/ LET u == HandleAction([tasks[t] EXCEPT !.acked = TRUE], opportunities) IN
          /\ Succeeds
          /\ tasks' = [tasks EXCEPT ![t] = u.task]
          /\ opportunities' = u.store
     \/ /\ Fails
        /\ tasks' = [tasks EXCEPT ![t] = Settle(@, "AckFailed")]
        /\ UNCHANGED opportunities
  /\ UNCHANGED <<cli, library, service, config, initialized, file, nextId, posted, kiroCalls, calls>>

\* the promise of a listener settles; Bolt hands a rejection to its error
\* handler
ListenerSettled(t) == tasks[t].kind = "action" /\ Collect(t)

\* SIGINT or SIGTERM: the handler calls stop(), which stops the cron job and
\* awaits slack.stop()
Signal ==
  /\ NoneSettled
  /\ isRunning /\ cronJob = "scheduled"
  /\ cronJob' = "stopped"
  /\ UNCHANGED <<isRunning, process, tasks, faults>>
  /\ ServiceRest

\* slack.stop() settles and isRunning is cleared; the handler goes on to
\* removePid().  A rejection leaves the handler, which nothing awaits.
Stopped ==
  /\ NoneSettled
  /\ isRunning /\ cronJob = "stopped"
  /\ \/ /\ Succeeds
        /\ isRunning' = FALSE
        /\ UNCHANGED <<process, tasks>>
     \/ /\ Fails
        /\ process' = "unhandled" /\ tasks' = Abandoned
        /\ UNCHANGED isRunning
  /\ UNCHANGED cronJob
  /\ ServiceRest

\* removePid() settles and the handler calls process.exit(0): the calls
\* still in flight end with the process
Exit ==
  /\ NoneSettled
  /\ ~isRunning /\ cronJob = "stopped"
  /\ process' = "exit0" /\ tasks' = Abandoned
  /\ UNCHANGED <<isRunning, cronJob, faults>>
  /\ ServiceRest

ServiceNext ==
  \/ \E t \in Tasks : Alive /\ start(t)
  \/ \E t \in Tasks : Alive /\ Loaded(t)
  \/ \E t \in Tasks : Alive /\ Scheduled(t)
  \/ \E t \in Tasks : Alive /\ CronFired(t)
  \/ \E t \in Tasks : Alive /\ Fetched(t)
  \/ \E t \in Tasks : Alive /\ DetectCreated(t)
  \/ \E t \in Tasks : Alive /\ DetectPosted(t)
  \/ \E t \in Tasks : Alive /\ DetectUpdated(t)
  \/ \E t \in Tasks : Alive /\ CallbackSettled(t)
  \/ \E t \in Tasks, id \in Ids, action \in Actions : Alive /\ ButtonPressed(t, id, action)
  \/ \E t \in Tasks : Alive /\ Acked(t)
  \/ \E t \in Tasks : Alive /\ ActionSaved(t)
  \/ \E t \in Tasks : Alive /\ ActionNotified(t)
  \/ \E t \in Tasks : Alive /\ PromoteSaved(t)
  \/ \E t \in Tasks : Alive /\ PromoteNotified(t)
  \/ \E t \in Tasks : Alive /\ KiroResponded(t)
  \/ \E t \in Tasks : Alive /\ SpecSaved(t)
  \/ \E t \in Tasks : Alive /\ SpecNotified(t)
  \/ \E t \in Tasks : Alive /\ RevertSaved(t)
  \/ \E t \in Tasks : Alive /\ ListenerSettled(t)
  \/ Alive /\ Signal
  \/ Alive /\ Stopped
  \/ Alive /\ Exit

ServiceSpec == Init /\ [][ServiceNext]_vars

\* ------------------------------------------- library functions on their own
RetryNext ==
  \/ \E maxAttempts \in 0..MaxAttempts : retry(maxAttempts)
  \/ \E outcome \in Values \cup Errors : FnSettled(outcome)
  \/ Slept

RetrySpec == Init /\ [][RetryNext]_vars

\* the three detectors are called on one analytics snapshot; every candidate
\* gets a new uuid
Detection(snap) ==
  /\ calls < MaxCalls
  /\ calls' = calls + 1
  /\ LET cands == Detect(snap, nextId) IN
       /\ detections' = Append(detections, [input |-> snap, output |-> cands])
       /\ nextId' = nextId + Len(cands)
  /\ UNCHANGED <<cli, retryCall, service, config, opportunities, initialized, file, tasks,
                 posted, kiroCalls, faults>>

DetectorNext == \E snap \in Snapshots : Detection(snap)

DetectorSpec == Init /\ [][DetectorNext]_vars

\* ------------------------------------------------------- the start command
\* a process is there from the moment the command is issued until it exits
Exists(p) == commands[p] \notin {"none", "exit0", "exit1"}

\* isProcessRunning(pid): process.kill(pid, 0) succeeds when the process exists
isProcessRunning(pid) == Exists(pid)

\* what isRunning() answers from the content it read from the PID file
isRunningFrom(pid) == IF pid = NoPid THEN FALSE ELSE isProcessRunning(pid)

\* `opportunityos start` is typed: the process begins and awaits isRunning(),
\* which awaits the read of the PID file
startCommand(p) ==
  /\ commands[p] = "none"
  /\ commands' = [commands EXCEPT ![p] = "isRunning"]
  /\ UNCHANGED <<pidFile, library, service, config, opportunities, initialized, file,
                 tasks, nextId, posted, kiroCalls, calls, faults>>

\* the read of the PID file settles: exit(1) when it names a live process,
\* otherwise go on to configExists()
PidRead(p) ==
  /\ commands[p] = "isRunning"
  /\ commands' = [commands EXCEPT ![p] =
                    IF isRunningFrom(pidFile) THEN "exit1" ELSE "configExists"]
  /\ UNCHANGED <<pidFile, library, service, config, opportunities, initialized, file,
                 tasks, nextId, posted, kiroCalls, calls, faults>>

\* configExists() settles: exit(1) without a configuration, otherwise loadConfig()
ConfigChecked(p, exists) ==
  /\ commands[p] = "configExists"
  /\ commands' = [commands EXCEPT ![p] = IF exists THEN "loadConfig" ELSE "exit1"]
  /\ UNCHANGED <<pidFile, library, service, config, opportunities, initialized, file,
                 tasks, nextId, posted, kiroCalls, calls, faults>>

\* loadConfig() settles and savePid() issues the write of the PID file
ConfigLoaded(p) ==
  /\ commands[p] = "loadConfig"
  /\ commands' = [commands EXCEPT ![p] = "savePid"]
  /\ UNCHANGED <<pidFile, library, service, config, opportunities, initialized, file,
                 tasks, nextId, posted, kiroCalls, calls, faults>>

\* the write settles: the file holds this process's pid, whatever it held,
\* and system.start() is awaited
PidSaved(p) ==
  /\ commands[p] = "savePid"
  /\ pidFile' = p
  /\ commands' = [commands EXCEPT ![p] = "start"]
  /\ UNCHANGED <<library, service, config, opportunities, initialized, file,
                 tasks, nextId, posted, kiroCalls, calls, faults>>

\* system.start() settles: the instance runs, or the catch exits with 1
SystemStarted(p, ok) ==
  /\ commands[p] = "start"
  /\ commands' = [commands EXCEPT ![p] = IF ok THEN "running" ELSE "exit1"]
  /\ UNCHANGED <<pidFile, library, service, config, opportunities, initialized, file,
                 tasks, nextId, posted, kiroCalls, calls, faults>>

\* SIGINT or SIGTERM: the handler awaits system.stop()
Interrupted(p) ==
  /\ commands[p] = "running"
  /\ commands' = [commands EXCEPT ![p] = "stop"]
  /\ UNCHANGED <<pidFile, library, service, config, opportunities, initialized, file,
                 tasks, nextId, posted, kiroCalls, calls, faults>>

\* system.stop() settles and removePid() issues the unlink
SystemStopped(p) ==
  /\ commands[p] = "stop"
  /\ commands' = [commands EXCEPT ![p] = "removePid"]
  /\ UNCHANGED <<pidFile, library, service, config, opportunities, initialized, file,
                 tasks, nextId, posted, kiroCalls, calls, faults>>

\* the unlink settles: the file is gone, whichever pid it held, and exit(0)
PidRemoved(p) ==
  /\ commands[p] = "removePid"
  /\ pidFile' = NoPid
  /\ commands' = [commands EXCEPT ![p] = "exit0"]
  /\ UNCHANGED <<library, service, config, opportunities, initialized, file,
                 tasks, nextId, posted, kiroCalls, calls, faults>>

CliNext ==
  \E p \in Pids :
    \/ startCommand(p)
    \/ PidRead(p)
    \/ \E exists \in BOOLEAN : ConfigChecked(p, exists)
    \/ ConfigLoaded(p)
    \/ \E ok \in BOOLEAN : SystemStarted(p, ok)
    \/ PidSaved(p)
    \/ Interrupted(p)
    \/ SystemStopped(p)
    \/ PidRemoved(p)

CliSpec == Init /\ [][CliNext]_vars


\* ================================================================== claims
StatusOf(store, id) == Get(store, id).status

\* slot t takes a new call of this kind in the step
Begins(t, kind) == tasks[t].pc = "idle" /\ tasks'[t].kind = kind

Rejected(t, err) == tasks'[t].pc = "done" /\ tasks'[t].result = err

\* C1: handleAction(id, action) goes through exactly when the opportunity is
\* at detected; at any other status it is rejected with IllegalTransition and
\* the stored records are left as they were.
C1_ActionOnlyFromDetected ==
  [][\A t \in Tasks :
       (Begins(t, "action") /\ Has(opportunities, tasks'[t].id)) =>
          IF StatusOf(opportunities, tasks'[t].id) = DETECTED
            THEN ~Rejected(t, "IllegalTransition")
            ELSE Rejected(t, "IllegalTransition") /\ opportunities' = opportunities]_vars

\* C2: markShipped on an opportunity that is not at spec_generated is
\* rejected with IllegalTransition and changes nothing.
C2_ShippedOnlyFromSpecGenerated ==
  [][\A t \in Tasks :
       (/\ Begins(t, "ship")
        /\ Has(opportunities, tasks'[t].id)
        /\ StatusOf(opportunities, tasks'[t].id) # SPEC_GENERATED) =>
          Rejected(t, "IllegalTransition") /\ opportunities' = opportunities]_vars

\* the edges of the lifecycle graph
Edges ==
  { <<DETECTED, PROMOTED>>, <<DETECTED, INVESTIGATING>>, <<DETECTED, DISMISSED>>,
    <<PROMOTED, SPEC_GENERATED>>, <<SPEC_GENERATED, SHIPPED>> }

\* C3: every change of a stored opportunity's status follows an edge of the
\* lifecycle graph; dismissed and shipped are never left, and detected never
\* goes straight to shipped.
C3_StatusFollowsEdges ==
  [][\A id \in Ids :
       (Has(opportunities, id) /\ Has(opportunities', id)) =>
          \/ StatusOf(opportunities', id) = StatusOf(opportunities, id)
          \/ <<StatusOf(opportunities, id), StatusOf(opportunities', id)>> \in Edges]_vars

\* C4: with auto-spec-generation configured off, a promote leaves the
\* opportunity without a specRef and never invokes the spec-generation
\* collaborator.
C4_NoSpecGenerationWhenOff ==
  ~config.autoGenerateSpecs =>
     /\ kiroCalls = {}
     /\ \A i \in 1..Len(opportunities) : opportunities[i].specUrl = NoSpec

\* C5: in the step in which a promote learns that spec generation has failed
\* for good, the stored status of the opportunity becomes (or stays) promoted,
\* not spec_generated; the promote then settles with an error, and when it
\* settles with the generation failure the file it has just written holds the
\* opportunity at promoted.
C5_SpecFailureLeavesPromoted ==
  [][\A t \in Tasks :
       /\ (/\ tasks[t].kind = "action" /\ tasks[t].pc = "kiro"
           /\ "KiroFailed" \in {tasks'[t].err, tasks'[t].result}) =>
             /\ Has(opportunities', tasks[t].id)
             /\ StatusOf(opportunities', tasks[t].id) = PROMOTED
       /\ (/\ tasks[t].kind = "action" /\ tasks[t].err = "KiroFailed"
           /\ tasks'[t].pc = "done") =>
             /\ tasks'[t].result # "ok"
             /\ tasks'[t].result = "KiroFailed" =>
                  /\ Has(file'.records, tasks[t].id)
                  /\ StatusOf(file'.records, tasks[t].id) = PROMOTED]_vars

\* a promote whose spec generation failed has settled with that error, and
\* the record is at promoted
C5_Witness ==
  \E t \in Tasks :
    /\ tasks[t].kind = "action" /\ tasks[t].action = "promote"
    /\ tasks[t].pc = "done" /\ tasks[t].result = "KiroFailed"
    /\ Has(opportunities, tasks[t].id)
    /\ StatusOf(opportunities, tasks[t].id) = PROMOTED

\* C6: two handleAction calls on the same opportunity are never in flight
\* together.
C6_ActionsNeverOverlap ==
  \A t1, t2 \in Tasks :
    (/\ t1 # t2
     /\ tasks[t1].kind = "action" /\ tasks[t2].kind = "action"
     /\ tasks[t1].id = tasks[t2].id) =>
       ~(InFlight(t1) /\ InFlight(t2))

\* C7: a stored opportunity has a specRef exactly when its status is
\* spec_generated or shipped.
C7_SpecRefIffSpecGeneratedOrShipped ==
  \A i \in 1..Len(opportunities) :
    (opportunities[i].specUrl # NoSpec) <=>
      (opportunities[i].status \in {SPEC_GENERATED, SHIPPED})

\* C8: a stored opportunity has an impactRecord exactly when its status is
\* shipped.
C8_ImpactIffShipped ==
  \A i \in 1..Len(opportunities) :
    (opportunities[i].actualImpact # NoImpact) <=> (opportunities[i].status = SHIPPED)

\* C9: a stored opportunity that has a specRef keeps one in every later step,
\* the revert to promoted and markShipped included.
C9_SpecRefNeverCleared ==
  [][\A id \in Ids :
       (Has(opportunities, id) /\ Get(opportunities, id).specUrl # NoSpec) =>
          (Has(opportunities', id) /\ Get(opportunities', id).specUrl # NoSpec)]_vars

\* a record that went back to promoted after its spec was generated still
\* carries the specRef
C9_Witness ==
  \E i \in 1..Len(opportunities) :
    /\ opportunities[i].specUrl # NoSpec
    /\ opportunities[i].status = PROMOTED

\* a create for an id the store already holds
SecondCreate(t) == Begins(t, "create") /\ Has(opportunities, tasks'[t].id)

C11_FailedUpdateChangesNothing ==
  [][\A t \in Tasks :
       (/\ Begins(t, "update")
        /\ tasks'[t].pc = "done"
        /\ tasks'[t].result \in {"NotFound", "InvalidRecord"}) =>
          (opportunities' = opportunities /\ file' = file)]_vars

\* an update of a stored and saved record was rejected as invalid
C11_Witness ==
  \E t \in Tasks :
    /\ tasks[t].kind = "update" /\ tasks[t].pc = "done"
    /\ tasks[t].result = "InvalidRecord"
    /\ Has(opportunities, tasks[t].id)
    /\ file = Saved(opportunities)

\* what a fresh store initialized on backing file f holds
FreshStore(f) == load(<<>>, f).store

\* C12: when the process dies during a create or update, a fresh store
\* initialized from the backing file holds the complete record set from before
\* the operation (what it would have loaded from the file as it was) or the
\* complete set after it (what it would load from a pending save's file).
C12_CrashConsistent ==
  [][(initialized /\ ~initialized') =>
       FreshStore(file') \in
         {FreshStore(file)} \cup
         {FreshStore(Saved(tasks[t].data)) : t \in {u \in Tasks : tasks[u].pc = "save"}}]_vars

\* C13: once every concurrently issued create and update has completed (no
\* write failed, the process did not die), the backing file contains exactly
\* the records held in memory.
C13_FileMatchesMemory ==
  (/\ initialized /\ faults = 0
   /\ \A t \in Tasks : tasks[t].pc = "idle") =>
     (IF file.state = "json" THEN file.records ELSE <<>>) = Saved(opportunities).records

\* C14: when a save of N valid records (scores in [0,100]) has been written,
\* a fresh store initialized on the backing file holds exactly those N
\* records, with equal field values.
C14_RoundTrip ==
  [][\A t \in Tasks :
       (/\ tasks[t].pc = "save" /\ tasks'[t].pc = "done" /\ tasks'[t].result = "ok"
        /\ \A i \in 1..Len(tasks[t].data) : tasks[t].data[i].score \in 0..100) =>
          load(<<>>, file') = [err |-> "none", store |-> tasks[t].data]]_vars

\* after one create on top of a loaded record the process was restarted, and
\* the fresh store has been initialized and holds both records
C14_Witness ==
  /\ faults = 1 /\ calls = 1 /\ initialized
  /\ Len(opportunities) = 2
  /\ file = Saved(opportunities)
  /\ \A t \in Tasks : tasks[t].pc = "idle"

\* C15: at every moment every record held in the store has a score in
\* [0,100].
C15_ScoreInRange ==
  \A i \in 1..Len(opportunities) : opportunities[i].score \in 0..100

\* C16: every candidate a detector produces from valid input (a funnel step
\* with dropoffRate in (0.30, 1], an NPS in [-100, 30) with at least 20
\* responses, a feature with usageRate in [0, 0.20) and at least 100 users)
\* has an integer score in [0,100].
C16_DetectorScoresInRange ==
  \A t \in Tasks :
    tasks[t].kind = "detect" =>
      /\ tasks[t].opp # NoOpp => tasks[t].opp.score \in 0..100
      /\ \A i \in 1..Len(tasks[t].cands) : tasks[t].cands[i].score \in 0..100

\* the step in which the load of an initialize() call settles
LoadSettles(t) ==
  tasks[t].kind = "initialize" /\ tasks[t].pc = "load" /\ tasks'[t].pc = "done"

\* C17: initialize() succeeds with an empty store when the backing file is
\* missing, is empty, or fails JSON parsing.
C17_InitializeStartsEmpty ==
  [][\A t \in Tasks :
       (LoadSettles(t) /\ file.state \in {"missing", "empty", "corrupt"}) =>
          /\ tasks'[t].result = "ok"
          /\ initialized'
          /\ opportunities' = <<>>]_vars

\* initialize() has succeeded on a file that does not parse
C17_Witness ==
  \E t \in Tasks :
    /\ tasks[t].kind = "initialize" /\ tasks[t].pc = "done" /\ tasks[t].result = "ok"
    /\ file.state = "corrupt"
    /\ initialized /\ opportunities = <<>>

C19_InitializeOnce ==
  [][\A t \in Tasks :
       (Begins(t, "initialize") /\ initialized) =>
          /\ tasks'[t].pc = "done" /\ tasks'[t].result = "ok"
          /\ opportunities' = opportunities
          /\ initialized']_vars

\* a further initialize() has returned while memory holds a record the file
\* does not
C19_Witness ==
  \E t \in Tasks :
    /\ tasks[t].kind = "initialize" /\ tasks[t].pc = "done" /\ tasks[t].result = "ok"
    /\ initialized
    /\ FreshStore(file) # opportunities

\* the inputs of one detection, flattened in the order the spec gives: the
\* steps of every funnel, then the NPS view, then the features; each with its
\* score and whether it is past its threshold
RECURSIVE Flatten(_)
Flatten(seqs) == IF seqs = <<>> THEN <<>> ELSE Head(seqs) \o Flatten(Tail(seqs))

AllInputs(snap) ==
  LET steps == Flatten(snap.funnels) IN
  [i \in 1..Len(steps) |->
     [type |-> FUNNEL_DROP, past |-> steps[i].dropoffRate > 30,
      score |-> calculateFunnelScore(steps[i].dropoffRate, steps[i].userCount)]]
  \o <<[type |-> LOW_NPS, past |-> snap.nps.score < 30 /\ snap.nps.responseCount >= 20,
        score |-> calculateNPSScore(snap.nps.score, snap.nps.responseCount)]>>
  \o [i \in 1..Len(snap.features) |->
        [type |-> FEATURE_UNDERUSE,
         past |-> snap.features[i].usageRate < 20 /\ snap.features[i].totalUsers >= 100,
         score |-> calculateFeatureUsageScore(snap.features[i].usageRate,
                                              snap.features[i].totalUsers)]]

Qualifies(x) == x.past /\ x.score >= minOpportunityScore

\* the candidates of snap in detection order, ids from firstId on
InDetectionOrder(cands, snap, firstId) ==
  LET expected == SelectSeq(AllInputs(snap), Qualifies) IN
  /\ Len(cands) = Len(expected)
  /\ \A i \in 1..Len(cands) :
       /\ cands[i].id = firstId + i - 1
       /\ cands[i].type = expected[i].type
       /\ cands[i].score = expected[i].score

\* C20: within one runDetection() the candidates are in detection order
\* (funnel, then NPS, then feature, each group in input order); they are
\* created and notified in that order, and a candidate is created only after
\* the one before it has been created and notified.
C20_DetectionOrder ==
  [][\A t \in Tasks :
       \* the detectors have run and the first candidate is created
       /\ (tasks[t].pc = "fetch" /\ tasks'[t].pc = "d_create") =>
            /\ \E snap \in Snapshots : InDetectionOrder(tasks'[t].cands, snap, nextId)
            /\ tasks'[t].id = Head(tasks'[t].cands).id
            /\ Has(opportunities', tasks'[t].id)
       \* a candidate is notified: it is the first one left, and it is stored
       /\ (tasks[t].kind = "detect" /\ posted' # posted /\ tasks'[t] # tasks[t]) =>
            /\ posted' = Append(posted, Head(tasks[t].cands).id)
            /\ Has(opportunities, Head(tasks[t].cands).id)
       \* the next candidate is created: the one before it is stored and notified
       /\ (tasks[t].pc = "d_update" /\ tasks'[t].pc = "d_create") =>
            /\ Has(opportunities, Head(tasks[t].cands).id)
            /\ \E i \in 1..Len(posted) : posted[i] = Head(tasks[t].cands).id
            /\ tasks'[t].cands = Tail(tasks[t].cands)
            /\ tasks'[t].id = Head(tasks'[t].cands).id
            /\ ~Has(opportunities, tasks'[t].id) /\ Has(opportunities', tasks'[t].id)]_vars

\* a detection with an NPS and a feature candidate has finished: both are
\* stored and were notified in that order
C20_Witness ==
  \E t \in Tasks :
    /\ tasks[t].kind = "detect" /\ tasks[t].pc = "done" /\ tasks[t].result = "ok"
    /\ posted = <<1, 2>>
    /\ Len(opportunities) = 2
    /\ opportunities[1].type = LOW_NPS /\ opportunities[2].type = FEATURE_UNDERUSE

\* the ids a sequence of records carries
IdsOf(recs) == {recs[i].id : i \in 1..Len(recs)}

Posted(id) == \E i \in 1..Len(posted) : posted[i] = id

C22_FetchFailureCreatesNothing ==
  [][\A t \in Tasks :
       (tasks[t].pc = "fetch" /\ tasks'[t] # tasks[t] /\ faults' # faults) =>
          /\ tasks'[t].pc = "done" /\ tasks'[t].result = "FetchFailed"
          /\ tasks'[t].cands = <<>> /\ tasks'[t].opp = NoOpp
          /\ opportunities' = opportunities /\ file' = file
          /\ nextId' = nextId
          /\ posted' = posted]_vars

\* after a run that stored and notified one opportunity, a second run has
\* failed at its fetches: store and channel hold the first run's record only
C22_Witness ==
  \E t \in Tasks :
    /\ tasks[t].kind = "detect" /\ tasks[t].pc = "done"
    /\ tasks[t].result = "FetchFailed"
    /\ IdsOf(opportunities) = {1} /\ posted = <<1>> /\ nextId = 2
    /\ file = Saved(opportunities)

\* C23: when a runDetection() started by the schedule fails, the failure
\* stays with the scheduled callback: it does not end the process as an
\* unhandled error, and the schedule stays active.
C23_ScheduledFailureContained ==
  [][\A t \in Tasks :
       (/\ tasks[t].kind = "detect" /\ tasks[t].pc = "done" /\ tasks[t].result # "ok"
        /\ tasks'[t] # tasks[t]) =>
          (process' = "running" /\ cronJob' = "scheduled")]_vars

\* C24: at most one runDetection() is in progress at any time.
C24_OneDetectionAtATime ==
  Cardinality({t \in Tasks : tasks[t].kind = "detect" /\ InFlight(t)}) <= 1

\* C25: after the shutdown signal no scheduled detection run is started, and
\* the process exits only when no detection run and no action handling is
\* still in flight.
C25_GracefulShutdown ==
  [][/\ cronJob = "stopped" => \A t \in Tasks : ~Begins(t, "detect")
     /\ (process = "running" /\ process' = "exit0") => \A t \in Tasks : ~InFlight(t)]_vars

\* C26: when the feedback call of a markShipped fails, markShipped still
\* completes without error and the opportunity stays shipped with its
\* impactRecord.
C26_FeedbackFailureOnlyLogged ==
  [][\A t \in Tasks :
       (tasks[t].pc = "m_feedback" /\ tasks'[t] # tasks[t] /\ faults' # faults) =>
          /\ tasks'[t].pc = "done" /\ tasks'[t].result = "ok"
          /\ Has(opportunities', tasks[t].id)
          /\ StatusOf(opportunities', tasks[t].id) = SHIPPED
          /\ Get(opportunities', tasks[t].id).actualImpact # NoImpact]_vars

\* C27: handleAction for an id that is not in the store fails with NotFound,
\* changes nothing in the store and invokes no collaborator.
C27_UnknownIdNotFound ==
  [][\A t \in Tasks :
       (Begins(t, "action") /\ ~Has(opportunities, tasks'[t].id)) =>
          /\ Rejected(t, "NotFound")
          /\ opportunities' = opportunities /\ file' = file
          /\ posted' = posted /\ kiroCalls' = kiroCalls]_vars

\* C28: for every button action the acknowledgement has been sent when the
\* registered handler is invoked: a call that is past its ack() and is
\* running or has run the handler has been acknowledged, whether the handler
\* succeeded or failed.
C28_AckBeforeHandler ==
  \A t \in Tasks :
    (/\ tasks[t].kind = "action"
     /\ tasks[t].pc \notin {"idle", "ack"}
     /\ tasks[t].result # "AckFailed") => tasks[t].acked

\* a button press was acknowledged and the promote it started then failed
\* with the spec-generation error
C28_Witness ==
  \E t \in Tasks :
    /\ tasks[t].kind = "action" /\ tasks[t].action = "promote"
    /\ tasks[t].pc = "done" /\ tasks[t].result = "KiroFailed"
    /\ tasks[t].acked

Last(seq) == seq[Len(seq)]

\* C29: retry(fn, {maxAttempts}) calls fn until its first success or until
\* maxAttempts calls have failed: no call follows a success, fn is never
\* called more than maxAttempts times, the first successful result is
\* returned, and after maxAttempts failures the error of the last attempt is
\* thrown.
C29_RetryUntilSuccessOrExhausted ==
  LET r == retryCall
      n == Len(r.outcomes)
  IN /\ n + (IF r.pc = "call" THEN 1 ELSE 0) <= r.maxAttempts
     /\ \A i \in 1..(n - 1) : r.outcomes[i] \in Errors
     /\ (n > 0 /\ Last(r.outcomes) \in Values) =>
          (r.pc = "done" /\ r.result = Last(r.outcomes))
     /\ (n > 0 /\ Last(r.outcomes) \in Errors) =>
          IF n = r.maxAttempts
            THEN r.pc = "done" /\ r.result = Last(r.outcomes)
            ELSE r.pc \in {"sleep", "call"}
     /\ r.pc = "done" => (n = r.maxAttempts \/ Last(r.outcomes) \in Values)

\* three attempts failed with three different errors and the third one was
\* thrown
C29_Witness ==
  /\ retryCall.pc = "done"
  /\ retryCall.outcomes = <<"e1", "e3", "e2">>
  /\ retryCall.result = "e2"

\* C30: two invocations of the detectors on the same input yield the same
\* candidates: same number, order, kind, score and identifier.
C30_DetectorsDeterministic ==
  \A i, j \in 1..Len(detections) :
    detections[i].input = detections[j].input =>
      detections[i].output = detections[j].output

DemoDefaultConfig ==
  [demo |-> TRUE, autoGenerateSpecs |-> NormalizeAutoGenerate("unset")]

\* C32: in a DemoOpportunityOS constructed without an autoGenerateSpecs
\* setting, a promote does not finish successfully before the spec generator
\* has been invoked: after its status update and notification it goes on to
\* generate the spec.
C32_DemoGeneratesByDefault ==
  [][\A t \in Tasks :
       (/\ config = DemoDefaultConfig
        /\ tasks[t].kind = "action" /\ tasks[t].action = "promote"
        /\ tasks[t].pc \in {"p_save", "p_notify"}
        /\ tasks'[t].pc = "done" /\ tasks'[t].result = "ok") =>
          tasks[t].id \in kiroCalls']_vars

\* C33: at most one process started through the start command runs an
\* instance at a time: a start command issued while another instance is
\* running or is starting exits without starting a second one.
C33_SingleInstance ==
  Cardinality({p \in Pids : commands[p] = "running"}) <= 1

\* the ids of the records of the Map, in the order of its keys
IdSeq(store) == [i \in 1..Len(store) |-> store[i].id]

\* C34: a record is stored under its id, and update never changes it: the
\* Map never holds two records with one id, and a step in which update is
\* called, whatever id its partial fields carry, leaves every record with the
\* id it is stored under.  (The Map is the sequence of its values, looked up
\* by id: the key of a record is the id it was created or loaded with.)
C34_IdIsKeyAndImmutable ==
  [][/\ \A i, j \in 1..Len(opportunities') :
          opportunities'[i].id = opportunities'[j].id => i = j
     /\ \A t \in Tasks :
          Begins(t, "update") => IdSeq(opportunities') = IdSeq(opportunities)]_vars

\* an update carrying another id went through: the record it changed is
\* there under the id it was created with
C34_Witness ==
  \E i \in 1..Len(opportunities) :
    /\ opportunities[i].slackMessageTs # NoTs
    /\ opportunities[i].id \in Keys

\* C35: during promote the status goes back to promoted only when the
\* spec-generation call itself fails: once generateSpec has returned and the
\* record was stored as spec-generated, the notification carrying the spec
\* link leaves the record's status as it is, whether it succeeds or fails.
C35_RevertOnlyWhenGenerationFails ==
  [][\A t \in Tasks :
       (/\ tasks[t].kind = "action" /\ tasks[t].action = "promote"
        /\ tasks[t].pc = "s_notify"
        /\ tasks'[t] # tasks[t]) =>
          StatusOf(opportunities', tasks[t].id) = StatusOf(opportunities, tasks[t].id)]_vars

\* C36: when a runDetection() finishes, with "ok" or with an error, the
\* opportunity it was handling, if the run has added it to the store and its
\* backing file, has been posted to the channel and carries the ts of that
\* post (the candidates before it went through the whole loop body).
C36_AddedAreNotified ==
  [][\A t \in Tasks :
       (/\ tasks[t].kind = "detect"
        /\ tasks[t].pc \in {"d_create", "d_post", "d_update"}
        /\ tasks'[t].pc = "done"
        /\ Has(opportunities', tasks[t].id) /\ Has(file'.records, tasks[t].id)) =>
          /\ Posted(tasks[t].id)'
          /\ Get(opportunities', tasks[t].id).slackMessageTs # NoTs]_vars

\* C37: when initialize() fails because a record of the backing file is
\* invalid, the Map is left empty: none of the records that came before the
\* invalid one stays loaded.
C37_FailedInitializeLeavesEmpty ==
  [][\A t \in Tasks :
       (/\ tasks[t].kind = "initialize" /\ tasks[t].pc = "load"
        /\ tasks'[t].pc = "done" /\ tasks'[t].result = "InvalidRecord") =>
          opportunities' = <<>>]_vars

\* C38: when the write of the backing file fails during create or update,
\* the call fails and the Map is as it was before the call.  Stated for
\* create: once a create has settled with the write error, its id is absent
\* from the Map.
C38_FailedWriteLeavesMemory ==
  [][\A t \in Tasks :
       (/\ tasks[t].kind = "create" /\ tasks[t].pc = "save"
        /\ tasks'[t].pc = "done" /\ tasks'[t].result = "WriteFailed") =>
          ~Has(opportunities', tasks[t].id)]_vars

\* C39: no store operation discards records already persisted in the backing
\* file: as long as initialize() has not completed, a step (the write of a
\* create among them) leaves every record of the file in the file.
C39_EarlyCreateKeepsFile ==
  [][~initialized =>
       \A id \in Keys : Has(file.records, id) => Has(file'.records, id)]_vars

\* C40: concurrent update calls on one opportunity never lose a field change
\* in memory: while the store stays initialized, a status an update has set
\* and a slackMessageTs an update has set stay on the record through every
\* step, those of an overlapping update of other fields included.
C40_ConcurrentUpdatesKeepBoth ==
  [][(initialized /\ initialized') =>
       \A id \in Keys :
         Has(opportunities, id) =>
           /\ Has(opportunities', id)
           /\ Get(opportunities, id).status = DISMISSED =>
                Get(opportunities', id).status = DISMISSED
           /\ Get(opportunities, id).slackMessageTs # NoTs =>
                Get(opportunities', id).slackMessageTs # NoTs]_vars

\* two updates of one record are in flight together, one has set the status
\* and the other the slackMessageTs, and the record carries both
C40_Witness ==
  \E t, u \in Tasks :
    /\ t # u /\ tasks[t].id = tasks[u].id
    /\ tasks[t].kind = "update" /\ tasks[t].pc = "save"
    /\ tasks[u].kind = "update" /\ tasks[u].pc = "save"
    /\ Get(tasks[t].data, tasks[t].id).status = DISMISSED
    /\ Get(tasks[t].data, tasks[t].id).slackMessageTs = NoTs
    /\ Get(opportunities, tasks[t].id).status = DISMISSED
    /\ Get(opportunities, tasks[t].id).slackMessageTs # NoTs
====
